---- MODULE Spec2Model ----
(***************************************************************************)
(* Model of nomenclature/processor/generic.py: the AggregationItem and     *)
(* Aggregator pydantic models, the two "mapping" field validators, the     *)
(* rename_mapping property, apply and the from_file loader.                *)
(***************************************************************************)
EXTENDS Integers, Sequences, FiniteSets, TLC

\* ------------------------------------------------------------- bounds
\* Largest number of items of a mapping (and of entries of a file).
MaxItems == 2
\* Largest number of source labels in a whole mapping, all items together.
MaxTotal == 3
\* Largest number of rows of a dataset.
MaxRows == 2
\* Largest number of keys of one element of a file's `aggregate` list.
MaxKeys == 2

\* ------------------------------------------------------------ universe
\* Source labels; target names (the empty string is a str like any other).
Labels == {"A", "B", "C"}
Names == {"", "A", "B"}
\* Dimensions (columns) of a dataset and the values found in each column.
Dims == {"region", "variable"}
RegionValues == {"A", "B", "C"}
VariableValues == {"A", "x"}
\* Paths given as `file`: one is an existing file, the other is not.
ExistingFiles == {"agg.yaml"}
Files == ExistingFiles \cup {"missing.yaml"}
\* Paths given to from_file; the threads calling apply at the same time.
LoadPaths == {"/repo/agg.yaml", "/repo/missing.yaml"}
Threads == {1, 2}

None == [exc |-> "None"]
NoObject == [cls |-> "None"]

SeqsUpTo(S, n) == UNION {[1..k -> S] : k \in 0..n}

\* Item boundaries inside a flattened list of len labels, for n items.
Cuts(n, len) ==
    {c \in [1..(n + 1) -> 0..len] :
        /\ c[1] = 0
        /\ c[n + 1] = len
        /\ \A i \in 1..n : c[i] <= c[i + 1]}

\* AggregationItem(name=..., components=...): both fields are validated for
\* their type only, so every str and every list[str] is accepted.
AggregationItem(name, components) == [name |-> name, components |-> components]

MkMapping(ns, f, c) ==
    [i \in 1..Len(ns) |-> AggregationItem(ns[i], SubSeq(f, c[i] + 1, c[i + 1]))]

\* The flattened label lists of the mappings within the bounds.
FlatLists == SeqsUpTo(Labels, MaxTotal)

\* ------------------------------------------------- conflict validation
Count(items, x) == Cardinality({i \in DOMAIN items : items[i] = x})

\* Keys of Counter(items), in order of first occurrence.
RECURSIVE CounterKeys(_)
CounterKeys(items) ==
    IF items = <<>> THEN <<>>
    ELSE LET front == SubSeq(items, 1, Len(items) - 1)
             last == items[Len(items)]
         IN  IF \E i \in DOMAIN front : front[i] = last
             THEN CounterKeys(front)
             ELSE Append(CounterKeys(front), last)

IsDuplicateMoreThanTwice(items, x) == Count(items, x) > 2

IsDuplicate(items, x) == Count(items, x) > 1

Duplicates(items) ==
    LET keys == CounterKeys(items)
        Pick(x) == IsDuplicate(items, x)
    IN  SelectSeq(keys, Pick)

\* _validate_items: nothing raised (None), the custom conflict error, or the
\* KeyError of info.data["file"] when `file` did not validate.
ValidateItems(items, data, type) ==
    LET duplicates == Duplicates(items)
    IN  IF duplicates = <<>> THEN None
        ELSE IF "file" \in DOMAIN data
             THEN [exc |-> "PydanticCustomError",
                   type |-> type,
                   duplicates |-> duplicates,
                   file |-> data["file"]]
             ELSE [exc |-> "KeyError", key |-> "file"]

TargetNames(v) == [i \in DOMAIN v |-> v[i].name]

RECURSIVE AllComponents(_)
AllComponents(v) ==
    IF v = <<>> THEN <<>>
    ELSE AllComponents(SubSeq(v, 1, Len(v) - 1)) \o v[Len(v)].components

validate_target_names(v, data) == ValidateItems(TargetNames(v), data, "target")

validate_components(v, data) == ValidateItems(AllComponents(v), data, "component")

\* FilePath: the path must be an existing file.
ValidateFile(file) ==
    IF file \in ExistingFiles THEN None
    ELSE [exc |-> "path_not_file", loc |-> "file"]

\* As ValidateMapping, with one more check: a target name that is also a
\* source label is a conflict.
ValidateMappingCrossChecked(v, data) ==
    LET first == validate_target_names(v, data)
        second == validate_components(v, data)
        names == TargetNames(v)
        labels == AllComponents(v)
        both == SelectSeq(names, LAMBDA x : \E i \in DOMAIN labels : labels[i] = x)
    IN  IF first # None THEN first
        ELSE IF second # None THEN second
        ELSE ValidateItems(both \o both, data, "component")

\* The validators of "mapping" run in the order of their definition, each on
\* the value the one before returned: the second never runs once the first
\* raised.
ValidateMapping(v, data) ==
    LET first == validate_target_names(v, data)
    IN  IF first # None THEN first ELSE validate_components(v, data)

\* Aggregator(file=..., dimension=..., mapping=...): fields validate in the
\* order file, dimension, mapping; info.data holds the fields validated so
\* far. The result is the object, a ValidationError with the fields' errors,
\* or the KeyError escaping from a validator.
New(file, dimension, mapping) ==
    LET fileError == ValidateFile(file)
        data == IF fileError = None
                THEN [file |-> file, dimension |-> dimension]
                ELSE [dimension |-> dimension]
        mappingError == ValidateMapping(mapping, data)
        errors == (IF fileError = None THEN <<>> ELSE <<fileError>>)
                  \o (IF mappingError = None THEN <<>> ELSE <<mappingError>>)
    IN  IF mappingError.exc = "KeyError"
        THEN [ok |-> FALSE, error |-> mappingError, raisedBy |-> "validator"]
        ELSE IF errors # <<>>
        THEN [ok |-> FALSE,
              error |-> [exc |-> "ValidationError", errors |-> errors],
              raisedBy |-> "constructor"]
        ELSE [ok |-> TRUE,
              object |-> [cls |-> "Aggregator", file |-> file,
                          dimension |-> dimension, mapping |-> mapping]]

\* -------------------------------------------------------- rename_mapping
DictSetSwapped(d, k, val) ==
    [x \in DOMAIN d \cup {val} |-> IF x = val THEN k ELSE d[x]]

\* rename_dict[c] = item.name
DictSet(d, k, val) == [x \in DOMAIN d \cup {k} |-> IF x = k THEN val ELSE d[x]]

EmptyDict == [x \in {} |-> ""]

\* rename_mapping has not been read yet.
Unread == [unread |-> TRUE]

RECURSIVE PutComponents(_, _, _)
PutComponents(d, name, components) ==
    IF components = <<>> THEN d
    ELSE PutComponents(DictSet(d, Head(components), name), name, Tail(components))

RECURSIVE RenameItems(_, _)
RenameItems(d, mapping) ==
    IF mapping = <<>> THEN d
    ELSE RenameItems(PutComponents(d, Head(mapping).name, Head(mapping).components),
                     Tail(mapping))

rename_mapping(object) == RenameItems(EmptyDict, object.mapping)

\* ------------------------------------------------------------------ apply
Row(r, v) == [region |-> r, variable |-> v]
Rows == {Row(r, v) : r \in RegionValues, v \in VariableValues}
Datasets == SeqsUpTo(Rows, MaxRows)

ReplaceChained(value, d) ==
    LET once == IF value \in DOMAIN d THEN d[value] ELSE value
    IN  IF once \in DOMAIN d THEN d[once] ELSE once

Replace(value, d) == IF value \in DOMAIN d THEN d[value] ELSE value

\* df.rename({dimension: d}, check_duplicates=False): a new dataset whose
\* column `dimension` has every key of d replaced by its value.
Rename(data, dimension, d) ==
    [i \in DOMAIN data |-> [data[i] EXCEPT ![dimension] = Replace(@, d)]]

\* What a call of df.rename leaves behind: the dataset the caller passed, as
\* it is after the call, and the value returned. In place, the caller's
\* dataset is the renamed one and nothing is returned.
RenameCall(data, dimension, d, inplace) ==
    IF inplace
    THEN [df |-> Rename(data, dimension, d), returned |-> <<>>]
    ELSE [df |-> data, returned |-> Rename(data, dimension, d)]

\* apply passes no `inplace`, whose default is False.
apply(object, data) ==
    RenameCall(data, object.dimension, rename_mapping(object), FALSE)

\* ------------------------------------------------------------------ state
VARIABLES
    pc,     \* "new", "built" (construction returned), "failed" (it raised)
    args,   \* the arguments the constructor was called with
    self,   \* the Aggregator, once built
    err,    \* what construction raised
    given,  \* the dataset last handed to apply, as it was before the call
    df,     \* that dataset after the call
    out,    \* what that apply returned
    rm,     \* what the last read of rename_mapping returned
    called, \* an apply call has returned and its caller still holds df and out
    doc,    \* the path from_file was given and what the file holds
    th      \* the apply call of each thread: its position and its locals

vars == <<pc, args, self, err, given, df, out, rm, called, doc, th>>

NoArgs == [file |-> "", dimension |-> "", mapping |-> <<>>]
NoDoc == [path |-> "", content |-> [kind |-> "none"]]
Idle == [pc |-> "idle", data |-> <<>>, dim |-> "", i |-> 1, j |-> 1,
         dict |-> EmptyDict, result |-> <<>>]

Init ==
    /\ pc = "new"
    /\ args = NoArgs
    /\ self = NoObject
    /\ err = None
    /\ given = <<>>
    /\ df = <<>>
    /\ out = <<>>
    /\ rm = Unread
    /\ called = FALSE
    /\ doc = NoDoc
    /\ th = [t \in Threads |-> Idle]

Construct ==
    /\ pc = "new"
    /\ \E file \in Files, dimension \in Dims, n \in 0..MaxItems, f \in FlatLists :
       \E ns \in [1..n -> Names], c \in Cuts(n, Len(f)) :
          LET mapping == MkMapping(ns, f, c)
              r == New(file, dimension, mapping)
          IN  /\ args' = [file |-> file, dimension |-> dimension, mapping |-> mapping]
              /\ pc' = IF r.ok THEN "built" ELSE "failed"
              /\ self' = IF r.ok THEN r.object ELSE NoObject
              /\ err' = IF r.ok THEN None ELSE r.error
    /\ UNCHANGED <<given, df, out, rm, called, doc, th>>

Apply ==
    /\ pc = "built"
    /\ called = FALSE
    /\ called' = TRUE
    /\ \E data \in Datasets :
          /\ given' = data
          /\ df' = apply(self, data).df
          /\ out' = apply(self, data).returned
    /\ UNCHANGED <<pc, args, self, err, rm, doc, th>>

ReadRenameMapping ==
    /\ pc = "built"
    /\ rm' = rename_mapping(self)
    /\ UNCHANGED <<pc, args, self, err, given, df, out, called, doc, th>>

\* The caller of apply drops the dataset it passed and the one it got back.
Release ==
    /\ called = TRUE
    /\ called' = FALSE
    /\ given' = <<>>
    /\ df' = <<>>
    /\ out' = <<>>
    /\ UNCHANGED <<pc, args, self, err, rm, doc, th>>

Next == Construct \/ Apply \/ ReadRenameMapping \/ Release

Spec == Init /\ [][Next]_vars

\* -------------------------------------------------------------- from_file
\* get_relative_path: the path relative to the root the files live under.
get_relative_path(path) ==
    CASE path = "/repo/agg.yaml" -> "agg.yaml"
      [] path = "/repo/missing.yaml" -> "missing.yaml"
      [] OTHER -> path

\* What the loop body raises for one element of `aggregate`: a str has a
\* first character but no values(), an empty dict has no first key.
ItemError(item) ==
    IF item.kind = "str" THEN "AttributeError"
    ELSE IF item.pairs = <<>> THEN "IndexError"
    ELSE "None"

\* dict(name=list(item)[0], components=list(item.values())[0])
FirstPair(item) ==
    [name |-> item.pairs[1].key, components |-> item.pairs[1].value]

\* The first exception raised inside the try block, as its text.
ParseError(content) ==
    IF content.kind = "absent" THEN "FileNotFoundError"
    ELSE IF content.kind = "empty" THEN "TypeError"
    ELSE IF "aggregate" \notin content.keys THEN "KeyError: 'aggregate'"
    ELSE LET bad == SelectSeq(content.aggregate, LAMBDA item : ItemError(item) # "None")
         IN  IF bad = <<>> THEN "None" ELSE ItemError(bad[1])

MappingList(content) ==
    [k \in DOMAIN content.aggregate |-> FirstPair(content.aggregate[k])]

\* from_file(file): the exceptions of the try block are re-raised as a
\* ValueError naming the relative path; the constructor is called after the
\* try block, and mapping_input["dimension"] is read there.
from_file(path, content) ==
    LET error == ParseError(content)
    IN  IF error # "None"
        THEN [ok |-> FALSE, raisedBy |-> "from_file",
              error |-> [exc |-> "ValueError", text |-> error,
                         path |-> get_relative_path(path)]]
        ELSE IF "dimension" \notin content.keys
        THEN [ok |-> FALSE, raisedBy |-> "subscript",
              error |-> [exc |-> "KeyError", key |-> "dimension"]]
        ELSE New(get_relative_path(path), content.dimension, MappingList(content))

\* from_file got as far as calling the constructor.
ConstructorCalled(content) ==
    ParseError(content) = "None" /\ "dimension" \in content.keys

\* The elements of `aggregate` made of the pairs of `mapping` taken in order:
\* shape[k] is the number of keys of element k, or -1 for a str element.
Shapes(n) ==
    {g \in SeqsUpTo(-1..MaxKeys, MaxItems) :
        /\ \A k \in DOMAIN g : g[k] <= n
        /\ \E c \in [0..Len(g) -> 0..n] :
              /\ c[0] = 0
              /\ c[Len(g)] = n
              /\ \A k \in DOMAIN g : c[k] = c[k - 1] + (IF g[k] < 0 THEN 0 ELSE g[k])}

Offset(g, k) ==
    LET RECURSIVE Sum(_)
        Sum(m) == IF m = 0 THEN 0 ELSE Sum(m - 1) + (IF g[m] < 0 THEN 0 ELSE g[m])
    IN  Sum(k - 1)

Element(mapping, g, k) ==
    IF g[k] < 0 THEN [kind |-> "str"]
    ELSE [kind |-> "dict",
          pairs |-> [m \in 1..g[k] |->
                        [key |-> mapping[Offset(g, k) + m].name,
                         value |-> mapping[Offset(g, k) + m].components]]]

Aggregate(mapping, g) == [k \in DOMAIN g |-> Element(mapping, g, k)]

\* A dict holds each key once.
IsDict(item) ==
    item.kind = "dict" =>
        \A a, b \in DOMAIN item.pairs : a # b => item.pairs[a].key # item.pairs[b].key

Load(path, content) ==
    LET r == from_file(path, content)
    IN  /\ pc = "new"
        /\ doc' = [path |-> path, content |-> content]
        /\ args' = IF ConstructorCalled(content)
                   THEN [file |-> get_relative_path(path),
                         dimension |-> content.dimension,
                         mapping |-> MappingList(content)]
                   ELSE NoArgs
        /\ pc' = IF r.ok THEN "built" ELSE "failed"
        /\ self' = IF r.ok THEN r.object ELSE NoObject
        /\ err' = IF r.ok THEN None ELSE r.error
        /\ UNCHANGED <<given, df, out, rm, called, th>>

LoadAbsent == Load("/repo/missing.yaml", [kind |-> "absent"])

LoadEmpty == Load("/repo/agg.yaml", [kind |-> "empty"])

LoadYaml ==
    /\ pc = "new"
    /\ \E keys \in SUBSET {"dimension", "aggregate"}, dimension \in Dims,
          n \in 0..MaxItems, f \in FlatLists :
       \E ns \in [1..n -> Names], c \in Cuts(n, Len(f)), g \in Shapes(n) :
          LET aggregate == Aggregate(MkMapping(ns, f, c), g)
          IN  /\ \A k \in DOMAIN aggregate : IsDict(aggregate[k])
              /\ Load("/repo/agg.yaml",
                      [kind |-> "yaml", keys |-> keys,
                       dimension |-> dimension, aggregate |-> aggregate])

NextLoad == LoadAbsent \/ LoadEmpty \/ LoadYaml \/ Apply \/ Release

SpecLoad == Init /\ [][NextLoad]_vars

\* ------------------------------------------------------- concurrent apply
\* One rename_dict kept by the instance and used by every call.
SharedDict(t) == th[1].dict

\* rename_dict is a local of the rename_mapping call of thread t.
LocalDict(t) == th[t].dict

RECURSIVE NextPosition(_, _, _)
\* The next (item, component) the two nested for loops visit from (i, j).
NextPosition(mapping, i, j) ==
    IF i > Len(mapping) THEN <<i, 1>>
    ELSE IF j > Len(mapping[i].components) THEN NextPosition(mapping, i + 1, 1)
    ELSE <<i, j>>

\* df.rename({self.dimension: ...: the key of the dict display is read.
ThreadStart(t) ==
    /\ th[t].pc = "start"
    /\ th' = [th EXCEPT ![t].pc = "iter", ![t].dim = self.dimension,
                        ![t].dict = EmptyDict, ![t].i = 1, ![t].j = 1]
    /\ UNCHANGED <<pc, args, self, err, given, df, out, rm, called, doc>>

\* rename_dict[c] = item.name, for the next c of the loops.
ThreadPut(t) ==
    LET pos == NextPosition(self.mapping, th[t].i, th[t].j)
    IN  /\ th[t].pc = "iter"
        /\ pos[1] <= Len(self.mapping)
        /\ th' = [th EXCEPT
                    ![t].dict = DictSet(LocalDict(t),
                                        self.mapping[pos[1]].components[pos[2]],
                                        self.mapping[pos[1]].name),
                    ![t].i = pos[1], ![t].j = pos[2] + 1]
        /\ UNCHANGED <<pc, args, self, err, given, df, out, rm, called, doc>>

\* return rename_dict, once the loops are through.
ThreadReturnDict(t) ==
    /\ th[t].pc = "iter"
    /\ NextPosition(self.mapping, th[t].i, th[t].j)[1] > Len(self.mapping)
    /\ th' = [th EXCEPT ![t].pc = "rename"]
    /\ UNCHANGED <<pc, args, self, err, given, df, out, rm, called, doc>>

\* df.rename(...) with the dict the property returned.
ThreadRename(t) ==
    /\ th[t].pc = "rename"
    /\ th' = [th EXCEPT ![t].pc = "done",
                        ![t].result = Rename(th[t].data, th[t].dim, LocalDict(t))]
    /\ UNCHANGED <<pc, args, self, err, given, df, out, rm, called, doc>>

\* The datasets of the concurrent calls: the rename works row by row, so one
\* row per call shows every interleaving of the calls' steps.
ThreadDatasets == {<<Row(r, "A")>> : r \in RegionValues}

\* An Aggregator built from an existing file, and one apply call per thread
\* about to start, each with a dataset of its own.
InitConc ==
    /\ \E dimension \in Dims, n \in 0..MaxItems, f \in FlatLists :
       \E ns \in [1..n -> Names], c \in Cuts(n, Len(f)) :
          LET r == New("agg.yaml", dimension, MkMapping(ns, f, c))
          IN  /\ r.ok
              /\ self = r.object
              /\ args = [file |-> "agg.yaml", dimension |-> dimension,
                         mapping |-> MkMapping(ns, f, c)]
    /\ pc = "built"
    /\ err = None
    /\ given = <<>>
    /\ df = <<>>
    /\ out = <<>>
    /\ rm = Unread
    /\ called = FALSE
    /\ doc = NoDoc
    /\ th \in [Threads -> {[Idle EXCEPT !.pc = "start", !.data = d] : d \in ThreadDatasets}]

NextConc ==
    \E t \in Threads :
        \/ ThreadStart(t)
        \/ ThreadPut(t)
        \/ ThreadReturnDict(t)
        \/ ThreadRename(t)

SpecConc == InitConc /\ [][NextConc]_vars

\* ------------------------------------------------------------ properties
Distinct(items) ==
    \A i, j \in DOMAIN items : i # j => items[i] # items[j]

\* The values that occur more than once in items.
Repeated(items) ==
    {items[i] : i \in {k \in DOMAIN items :
                          \E j \in DOMAIN items : j # k /\ items[j] = items[k]}}

Elements(items) == {items[i] : i \in DOMAIN items}

\* The source labels of all items, flattened in item order.
Flattened(mapping) == AllComponents(mapping)

\* Some label is both a target name and a source label.
Overlaps(mapping) ==
    Elements(TargetNames(mapping)) \cap Elements(Flattened(mapping)) # {}

\* C1: in every state after a successful construction, whatever apply calls
\* and rename_mapping reads happened, the target names are pairwise distinct
\* and so are the flattened source labels; and no step taken once the
\* Aggregator is built changes its dimension, mapping or file.
C1_InvariantsKept ==
    /\ [](pc = "built" =>
            /\ Distinct(TargetNames(self.mapping))
            /\ Distinct(Flattened(self.mapping)))
    /\ [][pc = "built" =>
            /\ self'.dimension = self.dimension
            /\ self'.mapping = self.mapping
            /\ self'.file = self.file]_vars

C1_Witness ==
    /\ pc = "built"
    /\ called
    /\ rm # Unread
    /\ Len(self.mapping) = 2
    /\ Len(Flattened(self.mapping)) = 3

\* The construction raised a ValidationError holding a conflict error of
\* this kind, with exactly these duplicates and the file of the arguments.
RaisedConflict(kind, duplicates) ==
    /\ pc = "failed"
    /\ err.exc = "ValidationError"
    /\ \E i \in DOMAIN err.errors :
          /\ err.errors[i].exc = "PydanticCustomError"
          /\ err.errors[i].type = kind
          /\ Elements(err.errors[i].duplicates) = duplicates
          /\ err.errors[i].file = args.file

\* C2: whatever the other fields are, a repeated target name makes the
\* construction fail with a conflict error of kind target naming exactly the
\* repeated names, and a repeated source label makes it fail with a conflict
\* error of kind component naming exactly the repeated labels; each carries
\* the file path.
C2_ConflictsReported ==
    pc # "new" =>
        /\ Repeated(TargetNames(args.mapping)) # {} =>
              RaisedConflict("target", Repeated(TargetNames(args.mapping)))
        /\ Repeated(Flattened(args.mapping)) # {} =>
              RaisedConflict("component", Repeated(Flattened(args.mapping)))

\* C3: what a read of rename_mapping returns sends every component of every
\* item to that item's name, and has no other key than the components.
C3_RenameMapping ==
    (pc = "built" /\ rm # Unread) =>
        /\ DOMAIN rm = Elements(Flattened(self.mapping))
        /\ \A k \in DOMAIN self.mapping :
              \A c \in Elements(self.mapping[k].components) :
                 rm[c] = self.mapping[k].name

C3_Witness ==
    /\ pc = "built"
    /\ rm # Unread
    /\ Len(self.mapping) = 2
    /\ Len(self.mapping[1].components) = 2
    /\ Len(self.mapping[2].components) = 1

\* C6: an item with an empty name or without components makes the
\* construction fail, so no Aggregator that was built holds such an item.
C6_NoEmptyItem ==
    /\ (pc # "new" /\ \E k \in DOMAIN args.mapping :
                        \/ args.mapping[k].name = ""
                        \/ args.mapping[k].components = <<>>)
          => pc = "failed"
    /\ pc = "built" =>
          \A k \in DOMAIN self.mapping :
             /\ self.mapping[k].name # ""
             /\ self.mapping[k].components # <<>>

\* C7: apply returns a dataset with as many rows as its input, in which the
\* value of the Aggregator's dimension is the name of the item the input's
\* value is a component of, or the input's value when it is a component of no
\* item; the other dimension's values are those of the input; and the dataset
\* the caller passed is after the call what it was before.
C7_Apply ==
    (pc = "built" /\ called) =>
        /\ df = given
        /\ Len(out) = Len(given)
        /\ \A i \in DOMAIN given :
              LET v == given[i][self.dimension]
              IN  /\ \A k \in DOMAIN self.mapping :
                        v \in Elements(self.mapping[k].components)
                            => out[i][self.dimension] = self.mapping[k].name
                  /\ v \notin Elements(Flattened(self.mapping))
                        => out[i][self.dimension] = v
                  /\ \A d \in Dims \ {self.dimension} : out[i][d] = given[i][d]

\* Fossil: [Coal, Oil] with Renewable: [Solar], applied to [Coal, Solar,
\* Nuclear] read as A: [A, B], B: [C] applied to rows with C and an unmapped
\* value.
C7_Witness ==
    /\ pc = "built"
    /\ called
    /\ Len(given) = 2
    /\ Len(self.mapping) = 2
    /\ \E i, j \in DOMAIN given :
          /\ given[i][self.dimension] \in Elements(Flattened(self.mapping))
          /\ out[i][self.dimension] # given[i][self.dimension]
          /\ given[j][self.dimension] \notin Elements(Flattened(self.mapping))

\* C10: a mapping with pairwise distinct names and pairwise distinct labels
\* is accepted (given an existing file) also when a label is both a name and
\* a component; and then rename_mapping still sends each component to the
\* name of its own item, not to what that name is itself renamed to.
C10_NoCrossCheck ==
    /\ (/\ pc # "new"
         /\ args.file \in ExistingFiles
         /\ Distinct(TargetNames(args.mapping))
         /\ Distinct(Flattened(args.mapping)))
          => pc = "built"
    /\ (pc = "built" /\ rm # Unread /\ Overlaps(self.mapping)) =>
          \A k \in DOMAIN self.mapping :
             \A c \in Elements(self.mapping[k].components) :
                /\ c \in DOMAIN rm
                /\ rm[c] = self.mapping[k].name

\* A: [B] with B: [C] (or the like) was built, and applying it to what apply
\* returned changes the dataset again.
C10_Witness ==
    /\ pc = "built"
    /\ called
    /\ rm # Unread
    /\ Overlaps(self.mapping)
    /\ \E k \in DOMAIN self.mapping :
          /\ self.mapping[k].name \in DOMAIN rm
          /\ \E c \in Elements(self.mapping[k].components) :
                rm[self.mapping[k].name] # rm[c]
    /\ apply(self, out).returned # out

\* from_file raised its own ValueError, whose message names the relative path
\* of the file it was given.
RaisedLoadError ==
    /\ pc = "failed"
    /\ err.exc = "ValueError"
    /\ err.path = get_relative_path(doc.path)

Loaded == doc # NoDoc

\* C4: loading a file without the `dimension` key, or without the
\* `aggregate` key, raises the load error naming the file's relative path,
\* and nothing else.
C4_MissingKeyIsLoadError ==
    (/\ Loaded
     /\ doc.content.kind = "yaml"
     /\ doc.content.keys # {"dimension", "aggregate"})
        => RaisedLoadError

\* Every element of `aggregate` is a mapping with exactly one key.
WellFormed(content) ==
    /\ content.kind = "yaml"
    /\ content.keys = {"dimension", "aggregate"}
    /\ \A k \in DOMAIN content.aggregate :
          /\ content.aggregate[k].kind = "dict"
          /\ Len(content.aggregate[k].pairs) = 1

\* C5: loading a well-formed file whose mapping repeats a target name or a
\* source label raises the load error of from_file, never the validation
\* error of the constructor.
C5_ConflictIsLoadError ==
    (/\ Loaded
     /\ WellFormed(doc.content)
     /\ \/ ~Distinct(TargetNames(MappingList(doc.content)))
        \/ ~Distinct(Flattened(MappingList(doc.content))))
        => RaisedLoadError

\* The keys of all elements of `aggregate`, and their source labels.
FileKeys(content) ==
    UNION {{content.aggregate[k].pairs[m].key : m \in DOMAIN content.aggregate[k].pairs} :
            k \in {x \in DOMAIN content.aggregate : content.aggregate[x].kind = "dict"}}

FileLabels(content) ==
    UNION {UNION {Elements(content.aggregate[k].pairs[m].value) :
                    m \in DOMAIN content.aggregate[k].pairs} :
            k \in {x \in DOMAIN content.aggregate : content.aggregate[x].kind = "dict"}}

\* C9: when some element of `aggregate` is not a single-key mapping, loading
\* fails; an Aggregator that from_file returned lacks no key of the file and
\* no source label of the file.
C9_NoItemDropped ==
    /\ (/\ Loaded
         /\ doc.content.kind = "yaml"
         /\ "aggregate" \in doc.content.keys
         /\ \E k \in DOMAIN doc.content.aggregate :
               \/ doc.content.aggregate[k].kind # "dict"
               \/ Len(doc.content.aggregate[k].pairs) # 1)
          => pc = "failed"
    /\ (Loaded /\ pc = "built") =>
          /\ FileKeys(doc.content) \subseteq Elements(TargetNames(self.mapping))
          /\ FileLabels(doc.content) \subseteq Elements(Flattened(self.mapping))

\* C8: a call that ran interleaved with the other thread's call built the
\* rename dictionary of the mapping and returns what apply returns for its
\* own dataset when it runs alone.
C8_NoInterference ==
    \A t \in Threads :
        /\ th[t].pc \in {"rename", "done"} => th[t].dict = rename_mapping(self)
        /\ th[t].pc = "done" => th[t].result = apply(self, th[t].data).returned

\* Thread 1 is through while thread 2 is half way through its loops, and the
\* two calls rename different values.
C8_Witness ==
    /\ th[1].pc = "done"
    /\ th[2].pc = "iter"
    /\ th[2].dict # EmptyDict
    /\ th[2].dict # rename_mapping(self)
    /\ th[1].result # th[1].data
    /\ th[1].data # th[2].data

====
